---- MODULE Spec2Model ----
(***************************************************************************)
(* The judgment ingester of ds-caselaw-ingester/lambda_function.py.        *)
(*                                                                         *)
(* One invocation of `handler` is a process that walks through the         *)
(* handler's statements; the document store (MarkLogic, through            *)
(* api_client), the private and public S3 buckets, the SQS queue and the   *)
(* notification service are the shared state.  Strings are sequences of    *)
(* tokens, so that the string operations of the code (replace, partition,  *)
(* the regular expression, substring tests) are computed, not assumed.     *)
(***************************************************************************)
EXTENDS Integers, Sequences, FiniteSets, TLC

(***************************************************************************)
(* Bounds of the model.                                                    *)
(***************************************************************************)
MaxDeliveries == 1      \* notifications delivered, one at a time
MaxOverlapping == 2     \* notifications delivered to overlapping invocations
MaxClock == 1           \* datetime.now() takes the values 0..MaxClock
MaxChain == 6           \* deliveries of one message and of its retry messages

(***************************************************************************)
(* Program constants.                                                      *)
(***************************************************************************)
MAX_RETRIES == 5        \* int(os.getenv("MAX_RETRIES", "5"))

Invocations == {"h1", "h2"}

(***************************************************************************)
(* Strings.  A string is a sequence of tokens; a token is a piece of text  *)
(* the code never looks inside.                                            *)
(***************************************************************************)
ABSENT == "<absent>"                \* a key the mapping does not have
AbsentStr == <<ABSENT>>
IdPrefix == "https://caselaw.nationalarchives.gov.uk/id/"
Slash == "/"
TarGz == ".tar.gz"

RECURSIVE Remove(_, _)
\* str.replace(tok, ""): every occurrence goes
Remove(s, tok) ==
    IF s = <<>> THEN <<>>
    ELSE IF Head(s) = tok THEN Remove(Tail(s), tok)
         ELSE <<Head(s)>> \o Remove(Tail(s), tok)

RECURSIVE Replace(_, _, _)
\* str.replace(old, new) for single tokens
Replace(s, old, new) ==
    IF s = <<>> THEN <<>>
    ELSE <<IF Head(s) = old THEN new ELSE Head(s)>> \o Replace(Tail(s), old, new)

RECURSIVE LastSegment(_)
\* re.findall("([^/]+$)", s): the longest suffix without a slash
LastSegment(s) ==
    IF s = <<>> THEN <<>>
    ELSE IF s[Len(s)] = Slash THEN <<>>
         ELSE LastSegment(SubSeq(s, 1, Len(s) - 1)) \o <<s[Len(s)]>>

RECURSIVE Before(_, _)
\* s.partition(tok)[0]: the text before the first occurrence of tok
Before(s, tok) ==
    IF s = <<>> THEN <<>>
    ELSE IF Head(s) = tok THEN <<>>
         ELSE <<Head(s)>> \o Before(Tail(s), tok)

IsPrefix(p, s) == Len(p) <= Len(s) /\ SubSeq(s, 1, Len(p)) = p

(***************************************************************************)
(* Messages.  A legacy (v1) message is a record without `parameters`; a    *)
(* key it lacks is left out of the record.                                 *)
(***************************************************************************)
GoodUrl == <<"https://bucket", Slash, "TDR-1", TarGz>>
EmptyUrl == <<>>
RetryCounts == {0, MAX_RETRIES - 1, MAX_RETRIES}

BaseMessage ==
    [consignment_reference |-> <<"TDR-1">>, s3_folder_url |-> GoodUrl,
     consignment_type |-> "judgment", number_of_retries |-> 0]
Without(m, key) == [k \in DOMAIN m \ {key} |-> m[k]]

V1Messages ==
    {[BaseMessage EXCEPT !.number_of_retries = n] : n \in RetryCounts}
    \cup {[BaseMessage EXCEPT !.consignment_reference = <<>>, !.number_of_retries = n] :
            n \in RetryCounts}
    \cup {Without([BaseMessage EXCEPT !.number_of_retries = n], "consignment_reference") :
            n \in RetryCounts}
    \cup {[BaseMessage EXCEPT !.s3_folder_url = EmptyUrl, !.number_of_retries = n] :
            n \in RetryCounts}
    \cup {[m EXCEPT !.s3_folder_url = EmptyUrl] :
            m \in {[BaseMessage EXCEPT !.consignment_reference = <<>>],
                   Without(BaseMessage, "consignment_reference")}}
    \cup {Without(m, "s3_folder_url") :
            m \in {BaseMessage, [BaseMessage EXCEPT !.consignment_reference = <<>>],
                   Without(BaseMessage, "consignment_reference")}}
V2Messages ==
    [parameters : [reference : {<<"TDR-2">>}, s3Bucket : {"inbox"}, s3Key : {"TDR-2.tar.gz"}]
                  \cup [s3Bucket : {"inbox"}, s3Key : {"TDR-2.tar.gz"}]]
Messages == V1Messages \cup V2Messages

Has(m, key) == key \in DOMAIN m

is_v1(message) == ~ Has(message, "parameters")

\* returns [ok, value] or [ok |-> FALSE, err]
get_consignment_reference_v1(message) ==
    LET result == IF Has(message, "consignment_reference")
                  THEN message.consignment_reference ELSE <<>>
    IN  IF result # <<>> THEN [ok |-> TRUE, value |-> result, err |-> "none"]
        ELSE IF ~ Has(message, "s3_folder_url")
             THEN [ok |-> FALSE, value |-> <<>>, err |-> "InvalidMessageException"]
        ELSE IF LastSegment(message.s3_folder_url) = <<>>
             THEN [ok |-> FALSE, value |-> <<>>, err |-> "IndexError"]
        ELSE [ok |-> TRUE,
              value |-> Before(LastSegment(message.s3_folder_url), TarGz),
              err |-> "none"]

get_consignment_reference_v2(message) ==
    LET result == IF Has(message, "parameters") /\ Has(message.parameters, "reference")
                  THEN message.parameters.reference ELSE <<>>
    IN  IF result # <<>> THEN [ok |-> TRUE, value |-> result, err |-> "none"]
        ELSE [ok |-> FALSE, value |-> <<>>, err |-> "InvalidMessageException"]

get_consignment_reference(message) ==
    IF is_v1(message) THEN get_consignment_reference_v1(message)
    ELSE get_consignment_reference_v2(message)

(***************************************************************************)
(* The retry controller.  The result is what the call does: the messages   *)
(* it sends to the queue and the exception it leaves with ("none" when it  *)
(* returns).  A key the message lacks raises KeyError where it is read.    *)
(***************************************************************************)
\* the retry message carries the count of the inbound message
send_retry_message_same_count(original_message) ==
    IF ~ is_v1(original_message)
    THEN [sent |-> <<>>, err |-> "MaximumRetriesExceededException"]
    ELSE IF ~ Has(original_message, "number_of_retries")
    THEN [sent |-> <<>>, err |-> "KeyError"]
    ELSE LET retry_number == original_message.number_of_retries + 1
         IN  IF ~ Has(original_message, "consignment_reference")
             THEN [sent |-> <<>>, err |-> "KeyError"]
             ELSE IF retry_number <= MAX_RETRIES
             THEN IF ~ Has(original_message, "consignment_type")
                  THEN [sent |-> <<>>, err |-> "KeyError"]
                  ELSE [sent |-> << [consignment_reference |->
                                        original_message.consignment_reference,
                                     s3_folder_url |-> EmptyUrl,
                                     consignment_type |-> original_message.consignment_type,
                                     number_of_retries |->
                                        original_message.number_of_retries] >>,
                        err |-> "none"]
             ELSE [sent |-> <<>>, err |-> "MaximumRetriesExceededException"]

send_retry_message(original_message) ==
    IF ~ is_v1(original_message)
    THEN [sent |-> <<>>, err |-> "MaximumRetriesExceededException"]
    ELSE IF ~ Has(original_message, "number_of_retries")
    THEN [sent |-> <<>>, err |-> "KeyError"]
    ELSE LET retry_number == original_message.number_of_retries + 1
         IN  IF ~ Has(original_message, "consignment_reference")
             THEN [sent |-> <<>>, err |-> "KeyError"]
             ELSE IF retry_number <= MAX_RETRIES
             THEN IF ~ Has(original_message, "consignment_type")
                  THEN [sent |-> <<>>, err |-> "KeyError"]
                  ELSE [sent |-> << [consignment_reference |->
                                        original_message.consignment_reference,
                                     s3_folder_url |-> EmptyUrl,
                                     consignment_type |-> original_message.consignment_type,
                                     number_of_retries |-> retry_number] >>,
                        err |-> "none"]
             ELSE [sent |-> <<>>, err |-> "MaximumRetriesExceededException"]

(***************************************************************************)
(* Archives.  What the handler reads of a consignment archive: whether a   *)
(* member named *metadata.json* is there, the fields of the metadata, and  *)
(* which of the members the metadata names are in the archive.             *)
(***************************************************************************)
Uri1 == <<"ewhc", Slash, "1">>
GoodXml == <<"<akomaNtoso>", "judgment", "</akomaNtoso>">>
BadXml == <<"<akomaNtoso>", "judgment">>
LogText == <<"warning", "<", "&">>
FormFeed == "\f"                         \* U+000C, not a character of XML 1.0
ControlLog == <<"warning", FormFeed>>
ImageNames == {"a.png", "b.png"}

BaseArchive ==
    [metadata |-> TRUE,                  \* a member named *metadata.json*
     uri |-> <<IdPrefix>> \o Uri1,       \* parameters.PARSER.uri
     xml |-> "judgment.xml",             \* parameters.TRE.payload.xml
     xmlMember |-> GoodXml,              \* the member of that name
     log |-> LogText,                    \* the member parser.log
     filename |-> "judgment.docx",       \* parameters.TRE.payload.filename
     docxMember |-> TRUE,                \* <reference>/<filename> is a member
     images |-> <<"a.png", "b.png">>,    \* parameters.TRE.payload.images
     imageMembers |-> ImageNames]        \* the <reference>/<image> members

UriVariants ==
    {[BaseArchive EXCEPT !.uri = u] :
        u \in {AbsentStr, <<>>, <<IdPrefix>>, Uri1}}
XmlVariants ==
    {[BaseArchive EXCEPT !.xml = x[1], !.xmlMember = x[2], !.log = l] :
        x \in {<<"judgment.xml", GoodXml>>, <<"judgment.xml", BadXml>>,
               <<"judgment.xml", AbsentStr>>, <<"", AbsentStr>>,
               <<ABSENT, AbsentStr>>},
        l \in {LogText, AbsentStr, ControlLog}}
DocxVariants ==
    {[BaseArchive EXCEPT !.filename = ABSENT, !.docxMember = FALSE],
     [BaseArchive EXCEPT !.docxMember = FALSE]}
ImageVariants ==
    {[BaseArchive EXCEPT !.images = i[1], !.imageMembers = i[2]] :
        i \in {<<AbsentStr, {}>>, <<<<>>, {}>>,
               <<<<"a.png", "b.png">>, {"b.png"}>>,
               <<<<"a.png", "b.png">>, {"a.png"}>>}}
NoMetadata == [BaseArchive EXCEPT !.metadata = FALSE]

Archives ==
    {BaseArchive, NoMetadata} \cup UriVariants \cup XmlVariants \cup DocxVariants
        \cup ImageVariants

\* the prefix is left in place
extract_uri_keeps_prefix(metadata, consignment_reference) ==
    LET uri == IF metadata.uri = AbsentStr THEN <<>> ELSE metadata.uri
    IN  IF uri = <<>> THEN <<"failures", Slash>> \o consignment_reference ELSE uri

\* extract_uri: the source URI
extract_uri(metadata, consignment_reference) ==
    LET uri == IF metadata.uri = AbsentStr THEN <<>> ELSE metadata.uri
        stripped == IF uri # <<>> THEN Remove(uri, IdPrefix) ELSE uri
    IN  IF stripped = <<>> THEN <<"failures", Slash>> \o consignment_reference
        ELSE stripped

(***************************************************************************)
(* XML resolution.  A text parses when it is one element: an opening tag,  *)
(* character data without markup characters and without characters XML     *)
(* does not allow, the matching closing tag.                               *)
(***************************************************************************)
Markup == {"<", "&"}
Control == {FormFeed}
ClosingTag(t) ==
    IF t = "<akomaNtoso>" THEN "</akomaNtoso>"
    ELSE IF t = "<error>" THEN "</error>"
    ELSE ABSENT

\* ET.XML(xml): [ok, doc]; ok = FALSE is ET.ParseError
parse_xml(xml) ==
    IF /\ Len(xml) >= 2
       /\ ClosingTag(xml[1]) # ABSENT
       /\ xml[Len(xml)] = ClosingTag(xml[1])
       /\ \A k \in 2..(Len(xml) - 1) : xml[k] \notin Markup \cup Control
    THEN [ok |-> TRUE, doc |-> xml]
    ELSE [ok |-> FALSE, doc |-> <<>>]

RECURSIVE escape(_)
\* xml.sax.saxutils.escape
escape(s) ==
    IF s = <<>> THEN <<>>
    ELSE <<CASE Head(s) = "&" -> "&amp;"
             [] Head(s) = "<" -> "&lt;"
             [] Head(s) = ">" -> "&gt;"
             [] OTHER -> Head(s)>> \o escape(Tail(s))

create_parser_log_xml(tar) ==
    IF tar.log = AbsentStr THEN <<"<error>", "parser.log not found", "</error>">>
    ELSE <<"<error>">> \o escape(tar.log) \o <<"</error>">>

\* the member whose name contains xml_file_name, or AbsentStr (None)
extract_xml_file(tar, xml_file_name) ==
    IF xml_file_name # "" /\ xml_file_name # ABSENT THEN tar.xmlMember ELSE AbsentStr

get_best_xml(tar, xml_file_name) ==
    LET xml_file == extract_xml_file(tar, xml_file_name)
    IN  IF xml_file # AbsentStr
        THEN IF parse_xml(xml_file).ok THEN parse_xml(xml_file)
             ELSE parse_xml(create_parser_log_xml(tar))
        ELSE parse_xml(create_parser_log_xml(tar))

(***************************************************************************)
(* State.                                                                  *)
(***************************************************************************)
VARIABLES
    handler,      \* per invocation: position and local variables of handler()
    store,        \* the document store: URI -> document
    s3,           \* keys of the private bucket (AWS_BUCKET_NAME)
    pub,          \* objects of the public bucket (PUBLIC_ASSET_BUCKET): [key, acl]
    sqs,          \* messages sent to SQS_QUEUE_URL, in order
    notes,        \* new-judgment notifications sent, by URI
    tmp,          \* per execution environment: the files under /tmp
    clock,        \* datetime.now(), to the second
    uuid,         \* uuid.uuid4() values handed out so far
    deliveries,   \* notifications delivered so far
    prod          \* os.getenv("ROLLBAR_ENV") = "prod"

vars == <<handler, store, s3, pub, sqs, notes, tmp, clock, uuid, deliveries, prod>>

NoMessage == [none |-> TRUE]
Idle ==
    [pc |-> "idle", message |-> NoMessage, consignment_reference |-> <<>>,
     filename |-> <<>>, tar |-> NoMetadata, open |-> FALSE,
     source_uri |-> <<>>, target_uri |-> <<>>, image |-> 1,
     exists |-> FALSE,      \* what judgment_exists(source_uri) answered
     wrote |-> "none",      \* the write issued: "insert" or "update"
     existed |-> FALSE,     \* the store held the target when it was issued
     inserted |-> FALSE,
     err |-> "none",        \* the exception the handler ended with
     at |-> "none",         \* where it was raised
     sent |-> 0,            \* messages this invocation sent to the queue
     id |-> 0]

Running(i) == handler[i].pc \notin {"idle", "done", "failed"}

Init ==
    /\ handler = [i \in Invocations |-> Idle]
    /\ store = <<>>
    /\ s3 = {}
    /\ pub = {}
    /\ sqs = <<>>
    /\ notes = {}
    /\ tmp = [i \in Invocations |-> {}]
    /\ clock = 0
    /\ uuid = 0
    /\ deliveries = 0
    /\ prod \in BOOLEAN

\* an exception e leaves the handler from the position of h
Raised(h, e) == [h EXCEPT !.pc = "failed", !.err = e, !.at = h.pc]
Raise(i, e) == Raised(handler[i], e)

judgment_exists(uri) == uri \in DOMAIN store

(***************************************************************************)
(* handler, lines 368-372: a notification is delivered, the message is     *)
(* decoded and its consignment reference read.                             *)
(***************************************************************************)
Start(i, m, limit) ==
    /\ ~ Running(i)
    /\ deliveries < limit
    /\ deliveries' = deliveries + 1
    /\ LET r == get_consignment_reference(m)
           h == [Idle EXCEPT !.pc = "start", !.message = m, !.id = deliveries + 1]
       IN  handler' = [handler EXCEPT ![i] =
                IF r.ok THEN [h EXCEPT !.pc = "retrieve", !.consignment_reference = r.value]
                ELSE Raised(h, r.err)]
    /\ UNCHANGED <<store, s3, pub, sqs, notes, tmp, clock, uuid, prod>>

TmpName(reference) == <<"/tmp/">> \o reference \o <<TarGz>>

(***************************************************************************)
(* save_s3_response, lines 134-174.  `outcome` is what the GET (v1) or the *)
(* download (v2) does; `archive` is what it fetches.                       *)
(***************************************************************************)
GetOutcomes(m) ==
    IF is_v1(m)
    THEN IF ~ Has(m, "s3_folder_url") THEN {"KeyError"}
         ELSE IF m.s3_folder_url = EmptyUrl THEN {"LocationValueError"}
         ELSE {"ok", "S3HTTPError", "MaxRetryError"}
    ELSE {"ok", "ClientError"}

\* the retry message is sent outside the except block, whatever the GET did
save_s3_response_v1_always_requeues(i, outcome, archive) ==
    LET h == handler[i]
        retry == send_retry_message(h.message)
        filename == TmpName(get_consignment_reference_v1(h.message).value)
    IN  /\ sqs' = sqs \o retry.sent
        /\ IF outcome # "ok" \/ retry.err # "none"
           THEN /\ handler' = [handler EXCEPT ![i] =
                      [Raise(i, IF retry.err = "none" THEN outcome ELSE retry.err)
                          EXCEPT !.sent = Len(retry.sent)]]
                /\ tmp' = tmp
           ELSE /\ tmp' = [tmp EXCEPT ![i] = @ \cup {filename}]
                /\ handler' = [handler EXCEPT ![i] =
                      [h EXCEPT !.pc = "open", !.filename = filename, !.tar = archive,
                                !.sent = Len(retry.sent)]]

save_s3_response_v1(i, outcome, archive) ==
    LET h == handler[i]
        retry == send_retry_message(h.message)
    IN  IF outcome # "ok"
        THEN /\ sqs' = sqs \o retry.sent
             /\ handler' = [handler EXCEPT ![i] =
                    [Raise(i, IF retry.err = "none" THEN outcome ELSE retry.err)
                        EXCEPT !.sent = Len(retry.sent)]]
             /\ tmp' = tmp
        ELSE LET filename == TmpName(get_consignment_reference_v1(h.message).value)
             IN  /\ tmp' = [tmp EXCEPT ![i] = @ \cup {filename}]
                 /\ handler' = [handler EXCEPT ![i] =
                        [h EXCEPT !.pc = "open", !.filename = filename, !.tar = archive]]
                 /\ sqs' = sqs

save_s3_response_v2(i, outcome, archive) ==
    LET h == handler[i]
    IN  IF outcome # "ok"
        THEN /\ handler' = [handler EXCEPT ![i] = Raise(i, outcome)]
             /\ UNCHANGED <<tmp, sqs>>
        ELSE LET filename == TmpName(get_consignment_reference_v2(h.message).value)
             IN  /\ tmp' = [tmp EXCEPT ![i] = @ \cup {filename}]
                 /\ handler' = [handler EXCEPT ![i] =
                        [h EXCEPT !.pc = "open", !.filename = filename, !.tar = archive]]
                 /\ sqs' = sqs

Retrieve(i, outcome, archive) ==
    /\ handler[i].pc = "retrieve"
    /\ outcome \in GetOutcomes(handler[i].message)
    /\ IF is_v1(handler[i].message) THEN save_s3_response_v1(i, outcome, archive)
       ELSE save_s3_response_v2(i, outcome, archive)
    /\ UNCHANGED <<store, s3, pub, notes, clock, uuid, deliveries, prod>>

(***************************************************************************)
(* select_uri, lines 330-337.                                              *)
(***************************************************************************)
CollisionUri(now, token) ==
    <<"collisions", Slash, ToString(now), Slash, ToString(token)>>

\* the existing URI is used again
select_uri_reuses(source_uri, now) == source_uri

\* the collision path is built from the source URI, not from time and token
select_uri_by_source(source_uri, now) ==
    IF ~ judgment_exists(source_uri) THEN source_uri
    ELSE <<"collisions", Slash>> \o source_uri

select_uri(source_uri, now) ==
    IF ~ judgment_exists(source_uri) THEN source_uri
    ELSE CollisionUri(now, uuid + 1)

(***************************************************************************)
(* handler, lines 394-401: the archive is opened, the metadata decoded,    *)
(* the source URI derived and the target URI selected.  `now` is the time  *)
(* select_uri reads: the clock has not gone back since it was last read.   *)
(***************************************************************************)
Open(i, now) ==
    LET h == handler[i]
        opened == [h EXCEPT !.open = TRUE]
        source_uri == extract_uri(h.tar, h.consignment_reference)
        exists == judgment_exists(source_uri)
    IN  /\ h.pc = "open"
        /\ IF ~ h.tar.metadata
           THEN /\ handler' = [handler EXCEPT ![i] =
                      Raised(opened, "FileNotFoundException")]
                /\ now = clock
                /\ UNCHANGED <<uuid, clock>>
           ELSE IF h.tar.xml = ABSENT
           THEN /\ handler' = [handler EXCEPT ![i] =
                      Raised(opened, "KeyError")]
                /\ now = clock
                /\ UNCHANGED <<uuid, clock>>
           ELSE /\ handler' = [handler EXCEPT ![i] =
                      [opened EXCEPT !.pc = "insert", !.source_uri = source_uri,
                                     !.exists = exists,
                                     !.target_uri = select_uri(source_uri, now)]]
                /\ IF exists
                   THEN now \in clock..MaxClock /\ clock' = now /\ uuid' = uuid + 1
                   ELSE now = clock /\ UNCHANGED <<uuid, clock>>
        /\ UNCHANGED <<store, s3, pub, sqs, notes, tmp, deliveries, prod>>

(***************************************************************************)
(* The document store.                                                     *)
(***************************************************************************)
Document(xml, id) == [xml |-> xml, by |-> id, published |-> FALSE, props |-> {}]

\* api_client.insert_document_xml: the document at uri is now xml
Inserted(uri, xml, id) ==
    [u \in DOMAIN store \cup {uri} |->
        IF u # uri THEN store[u]
        ELSE IF uri \in DOMAIN store
             THEN [store[uri] EXCEPT !.xml = xml, !.by = id]
             ELSE Document(xml, id)]

\* the write the handler issues for the resolved document
WriteKind(uri) == "insert"

(***************************************************************************)
(* handler, lines 402-414: the XML is resolved and inserted; `accepted` is *)
(* whether the store takes the insert (FALSE: MarklogicCommunicationError).*)
(***************************************************************************)
\* the result of the insert is not looked at
Insert_ignores_failure(i, accepted) ==
    LET h == handler[i]
        xml == get_best_xml(h.tar, h.tar.xml)
        issued == [h EXCEPT !.wrote = WriteKind(h.target_uri),
                            !.existed = judgment_exists(h.target_uri),
                            !.inserted = accepted, !.pc = "metadata"]
    IN  /\ h.pc = "insert"
        /\ xml.ok
        /\ store' = IF accepted THEN Inserted(h.target_uri, xml.doc, h.id) ELSE store
        /\ notes' = IF prod THEN notes \cup {h.target_uri} ELSE notes
        /\ handler' = [handler EXCEPT ![i] = issued]
        /\ UNCHANGED <<s3, pub, sqs, tmp, clock, uuid, deliveries, prod>>

Insert(i, accepted) ==
    LET h == handler[i]
        xml == get_best_xml(h.tar, h.tar.xml)
        issued == [h EXCEPT !.wrote = WriteKind(h.target_uri),
                            !.existed = judgment_exists(h.target_uri)]
    IN  /\ h.pc = "insert"
        /\ IF ~ xml.ok
           THEN /\ handler' = [handler EXCEPT ![i] = Raise(i, "ParseError")]
                /\ UNCHANGED <<store, notes>>
           ELSE IF accepted
           THEN /\ store' = Inserted(h.target_uri, xml.doc, h.id)
                /\ notes' = IF prod THEN notes \cup {h.target_uri} ELSE notes
                /\ handler' = [handler EXCEPT ![i] =
                      [issued EXCEPT !.pc = "metadata", !.inserted = TRUE]]
           ELSE /\ handler' = [handler EXCEPT ![i] =
                      Raised(issued, "DocumentInsertionError")]
                /\ UNCHANGED <<store, notes>>
        /\ UNCHANGED <<s3, pub, sqs, tmp, clock, uuid, deliveries, prod>>

(***************************************************************************)
(* store_metadata, lines 194-215: five properties are set on the target.   *)
(***************************************************************************)
PropertyNames ==
    {"source-organisation", "source-name", "source-email",
     "transfer-consignment-reference", "transfer-received-at"}

store_metadata(uri, id) ==
    [u \in DOMAIN store |->
        IF u = uri THEN [store[u] EXCEPT !.props = {<<n, id>> : n \in PropertyNames}]
        ELSE store[u]]

\* the docx step is entered before the properties are set
StoreMetadata_skipped(i) ==
    /\ handler[i].pc = "metadata"
    /\ handler' = [handler EXCEPT ![i].pc = "docx"]
    /\ UNCHANGED <<store, s3, pub, sqs, notes, tmp, clock, uuid, deliveries, prod>>

\* the properties are set on the source URI
StoreMetadata_at_source(i) ==
    /\ handler[i].pc = "metadata"
    /\ store' = store_metadata(handler[i].source_uri, handler[i].id)
    /\ handler' = [handler EXCEPT ![i].pc = "docx"]
    /\ UNCHANGED <<s3, pub, sqs, notes, tmp, clock, uuid, deliveries, prod>>

StoreMetadata(i) ==
    /\ handler[i].pc = "metadata"
    /\ store' = store_metadata(handler[i].target_uri, handler[i].id)
    /\ handler' = [handler EXCEPT ![i].pc = "docx"]
    /\ UNCHANGED <<s3, pub, sqs, notes, tmp, clock, uuid, deliveries, prod>>

(***************************************************************************)
(* Object storage.  store_file uploads to <folder>/<filename>.             *)
(***************************************************************************)
Key(folder, filename) == folder \o <<Slash>> \o filename

\* copy_file: [ok, key]; ok = FALSE is FileNotFoundException
copy_file(present, output_filename, uri) ==
    IF present THEN [ok |-> TRUE, key |-> Key(uri, output_filename)]
    ELSE [ok |-> FALSE, key |-> <<>>]

(***************************************************************************)
(* handler, lines 419-427: the docx.                                       *)
(***************************************************************************)
CopyDocx(i) ==
    LET h == handler[i]
        copy == copy_file(h.tar.docxMember,
                          Replace(h.target_uri, Slash, "_") \o <<".docx">>,
                          h.target_uri)
    IN  /\ h.pc = "docx"
        /\ IF h.tar.filename = ABSENT
           THEN /\ handler' = [handler EXCEPT ![i] = Raise(i, "DocxFilenameNotFoundException")]
                /\ s3' = s3
           ELSE IF ~ copy.ok
           THEN /\ handler' = [handler EXCEPT ![i] = Raise(i, "FileNotFoundException")]
                /\ s3' = s3
           ELSE /\ s3' = s3 \cup {copy.key}
                /\ handler' = [handler EXCEPT ![i].pc = "parser.log"]
        /\ UNCHANGED <<store, pub, sqs, notes, tmp, clock, uuid, deliveries, prod>>

(***************************************************************************)
(* handler, lines 430-440: the parser log; its absence is passed over.     *)
(***************************************************************************)
CopyParserLog(i) ==
    LET h == handler[i]
        copy == copy_file(h.tar.log # AbsentStr, <<"parser.log">>, h.target_uri)
    IN  /\ h.pc = "parser.log"
        /\ s3' = IF copy.ok THEN s3 \cup {copy.key} ELSE s3
        /\ handler' = [handler EXCEPT ![i].pc = "images"]
        /\ UNCHANGED <<store, pub, sqs, notes, tmp, clock, uuid, deliveries, prod>>

(***************************************************************************)
(* handler, lines 442-452: the images, one pass of the loop at a time.     *)
(***************************************************************************)
CopyImage(i) ==
    LET h == handler[i]
        image_list == h.tar.images
    IN  /\ h.pc = "images"
        /\ IF image_list = AbsentStr
           THEN /\ handler' = [handler EXCEPT ![i] = Raise(i, "KeyError")]
                /\ s3' = s3
           ELSE IF h.image > Len(image_list)
           THEN /\ handler' = [handler EXCEPT ![i].pc = "archive"]
                /\ s3' = s3
           ELSE LET image_filename == image_list[h.image]
                    copy == copy_file(image_filename \in h.tar.imageMembers,
                                      <<image_filename>>, h.target_uri)
                IN  IF ~ copy.ok
                    THEN /\ handler' = [handler EXCEPT ![i] =
                                Raise(i, "FileNotFoundException")]
                         /\ s3' = s3
                    ELSE /\ s3' = s3 \cup {copy.key}
                         /\ handler' = [handler EXCEPT ![i].image = h.image + 1]
        /\ UNCHANGED <<store, pub, sqs, notes, tmp, clock, uuid, deliveries, prod>>

(***************************************************************************)
(* handler, lines 454-457: the original archive file.                      *)
(***************************************************************************)
Basename(filename) == LastSegment(Tail(filename))

\* the archive file is not uploaded
CopyArchive_skipped(i) ==
    /\ handler[i].pc = "archive"
    /\ handler' = [handler EXCEPT ![i].pc = "publish"]
    /\ UNCHANGED <<store, s3, pub, sqs, notes, tmp, clock, uuid, deliveries, prod>>

CopyArchive(i) ==
    LET h == handler[i]
    IN  /\ h.pc = "archive"
        /\ s3' = s3 \cup {Key(h.target_uri, Basename(h.filename))}
        /\ handler' = [handler EXCEPT ![i].pc = "publish"]
        /\ UNCHANGED <<store, pub, sqs, notes, tmp, clock, uuid, deliveries, prod>>

(***************************************************************************)
(* update_published_documents, lines 292-304, and the end of the handler,  *)
(* lines 459-466.                                                          *)
(***************************************************************************)
Contains(key, tok) == \E k \in 1..Len(key) : key[k] = tok
EndsWith(key, tok) == Len(key) > 0 /\ key[Len(key)] = tok

\* every key under the prefix is copied
update_published_documents_unfiltered(uri) ==
    {[key |-> key, acl |-> "public-read"] : key \in {k \in s3 : IsPrefix(uri, k)}}

\* the copies made into the public bucket: [key, acl]
update_published_documents(uri) ==
    {[key |-> key, acl |-> "public-read"] :
        key \in {k \in s3 : /\ IsPrefix(uri, k)
                            /\ ~ Contains(k, "parser.log")
                            /\ ~ EndsWith(k, TarGz)}}

Publish(i) ==
    LET h == handler[i]
    IN  /\ h.pc = "publish"
        /\ pub' = IF store[h.target_uri].published
                  THEN pub \cup update_published_documents(h.target_uri) ELSE pub
        /\ handler' = [handler EXCEPT ![i] = [h EXCEPT !.pc = "done", !.open = FALSE]]
        /\ UNCHANGED <<store, s3, sqs, notes, tmp, clock, uuid, deliveries, prod>>

(***************************************************************************)
(* The environment: an editor publishes a document.                        *)
(***************************************************************************)
EditorPublish(uri) ==
    /\ uri \in DOMAIN store
    /\ ~ store[uri].published
    /\ store' = [store EXCEPT ![uri].published = TRUE]
    /\ UNCHANGED <<handler, s3, pub, sqs, notes, tmp, clock, uuid, deliveries, prod>>

(***************************************************************************)
(* Specifications.  Spec: deliveries are handled one at a time, as the     *)
(* queue is expected to serialise them.  SpecConcurrent: two invocations   *)
(* may overlap.  SpecRetry: one legacy message is delivered, and then each *)
(* retry message the handler sent comes back from the queue.               *)
(***************************************************************************)
Outcomes ==
    {"ok", "KeyError", "LocationValueError", "S3HTTPError", "MaxRetryError", "ClientError"}

\* the archives the location named in message m may hold
Consignments(m) == IF m = BaseMessage THEN Archives ELSE {BaseArchive}

\* the archives overlapping invocations fetch: two source URIs
OverlapArchives == {BaseArchive, [BaseArchive EXCEPT !.uri = AbsentStr]}

Step(i, archives) ==
    \/ \E outcome \in Outcomes, archive \in archives :
            Retrieve(i, outcome, archive)
    \/ \E now \in 0..MaxClock : Open(i, now)
    \/ \E accepted \in BOOLEAN : Insert(i, accepted)
    \/ StoreMetadata(i)
    \/ CopyDocx(i)
    \/ CopyParserLog(i)
    \/ CopyImage(i)
    \/ CopyArchive(i)
    \/ Publish(i)

Environment == \E uri \in DOMAIN store : EditorPublish(uri)

Next ==
    \/ \E m \in Messages : Start("h1", m, MaxDeliveries)
    \/ Step("h1", Consignments(handler["h1"].message))
    \/ Environment

Spec == Init /\ [][Next]_vars

NextConcurrent ==
    \/ \E i \in Invocations : Start(i, BaseMessage, MaxOverlapping)
    \/ \E i \in Invocations : Step(i, OverlapArchives)
    \/ Environment

SpecConcurrent == Init /\ [][NextConcurrent]_vars

\* the queue delivers the retry message the previous invocation sent
Redeliver(i) ==
    /\ deliveries >= 1
    /\ Len(sqs) >= deliveries
    /\ Start(i, sqs[deliveries], MaxChain)

NextRetry ==
    \/ \E m \in V1Messages : deliveries = 0 /\ Start("h1", m, MaxChain)
    \/ Redeliver("h1")
    \/ Step("h1", {BaseArchive})

SpecRetry == Init /\ [][NextRetry]_vars

(***************************************************************************)
(* Vocabulary of the properties.                                           *)
(***************************************************************************)
AfterOpen == {"insert", "metadata", "docx", "parser.log", "images", "archive", "publish"}
AfterInsert == AfterOpen \ {"insert"}

\* the target URI of invocation i has been selected
Selected(i) ==
    \/ handler[i].pc \in AfterOpen \cup {"done"}
    \/ handler[i].pc = "failed" /\ handler[i].at \in AfterOpen

\* the archive of invocation i was retrieved and opened, and the invocation is over
EndedAfterOpen(i) ==
    \/ handler[i].pc = "done"
    \/ handler[i].pc = "failed" /\ handler[i].at \in AfterOpen \cup {"open"}

\* collisions/<timestamp>/<token>
IsCollision(uri) ==
    /\ Len(uri) = 5
    /\ uri[1] = "collisions" /\ uri[2] = Slash /\ uri[4] = Slash
    /\ uri[3] \in {ToString(t) : t \in 0..MaxClock}
    /\ uri[5] \in {ToString(k) : k \in 1..uuid}

\* the keys of the private bucket under the namespace of uri
Namespace(uri) == {key \in s3 : IsPrefix(uri \o <<Slash>>, key)}

(***************************************************************************)
(* C1.  Two invocations with the same source URI never collide: at most    *)
(* one of them commits its document at the source URI, the other is routed *)
(* to a collisions/ path, and no write lands on a URI the store holds.     *)
(* Violated: select_uri is a check-then-act.                               *)
(***************************************************************************)
C1_NeverCollide ==
    /\ \A i, j \in Invocations :
          (/\ i # j
           /\ handler[i].inserted /\ handler[j].inserted
           /\ handler[i].source_uri = handler[j].source_uri)
          => /\ ~ (/\ handler[i].target_uri = handler[i].source_uri
                   /\ handler[j].target_uri = handler[j].source_uri)
             /\ \/ handler[i].target_uri = handler[i].source_uri
                \/ IsCollision(handler[i].target_uri)
    /\ \A i \in Invocations : handler[i].inserted => ~ handler[i].existed

(***************************************************************************)
(* C2.  Whenever the store answers that the source URI exists, select_uri  *)
(* returns a target that differs from the source URI and has the form      *)
(* collisions/<timestamp>/<token>.                                         *)
(***************************************************************************)
C2_NeverReuses ==
    \A i \in Invocations :
        handler[i].exists =>
            /\ handler[i].target_uri # handler[i].source_uri
            /\ IsCollision(handler[i].target_uri)

C2_Witness ==
    \E i \in Invocations :
        /\ handler[i].pc = "insert" /\ handler[i].exists
        /\ handler[i].source_uri \in DOMAIN store

(***************************************************************************)
(* C3.  When the store answers that the source URI does not exist, the     *)
(* target URI is the source URI.  As claimed, the source URI is the parser *)
(* URI with the prefix stripped, or failures/<reference> when the parser   *)
(* URI is absent or empty: violated by a parser URI that is the prefix     *)
(* alone.  Amended: ... or failures/<reference> when the parser URI is     *)
(* absent, empty, or empty once the prefix is stripped.                    *)
(***************************************************************************)
Failures(reference) == <<"failures", Slash>> \o reference

C3_AsClaimed ==
    \A i \in Invocations :
        (Selected(i) /\ ~ handler[i].exists) =>
            /\ handler[i].target_uri = handler[i].source_uri
            /\ handler[i].source_uri =
                  IF handler[i].tar.uri \in {AbsentStr, <<>>}
                  THEN Failures(handler[i].consignment_reference)
                  ELSE Remove(handler[i].tar.uri, IdPrefix)

\* C3 as amended: with no document at the source URI the target is the source
\* URI, which is failures/<reference> also when stripping leaves nothing.
C3_Unchanged ==
    \A i \in Invocations :
        (Selected(i) /\ ~ handler[i].exists) =>
            /\ handler[i].target_uri = handler[i].source_uri
            /\ handler[i].source_uri =
                  IF \/ handler[i].tar.uri \in {AbsentStr, <<>>}
                     \/ Remove(handler[i].tar.uri, IdPrefix) = <<>>
                  THEN Failures(handler[i].consignment_reference)
                  ELSE Remove(handler[i].tar.uri, IdPrefix)

C3_Witness ==
    \E i \in Invocations :
        /\ Selected(i) /\ ~ handler[i].exists
        /\ handler[i].tar.uri = <<IdPrefix>> \o Uri1
        /\ handler[i].target_uri = Uri1
        /\ handler[i].inserted

(***************************************************************************)
(* C4.  Once a source URI is ingested, an invocation that finds it in the  *)
(* store commits its document under a collisions/ path the store did not   *)
(* hold, and none of its steps changes the document at the source URI.     *)
(***************************************************************************)
C4_Redelivery ==
    [][\A i \in Invocations :
          (handler[i].exists /\ Running(i) /\ handler'[i] # handler[i]) =>
              LET S == handler[i].source_uri
                  T == handler[i].target_uri
              IN  /\ S \in DOMAIN store' /\ store'[S] = store[S]
                  /\ (handler'[i].inserted /\ ~ handler[i].inserted) =>
                        /\ IsCollision(T)
                        /\ T \notin DOMAIN store
                        /\ T \in DOMAIN store' /\ store'[T].by = handler[i].id]_vars

C4_Witness ==
    \E i, k \in Invocations :
        /\ handler[k].pc = "done"
        /\ handler[k].target_uri = handler[k].source_uri
        /\ handler[i].pc = "done" /\ handler[i].id > handler[k].id
        /\ handler[i].source_uri = handler[k].source_uri
        /\ IsCollision(handler[i].target_uri)
        /\ store[handler[i].target_uri].by = handler[i].id
        /\ store[handler[k].target_uri].by = handler[k].id

(***************************************************************************)
(* C5.  A legacy message whose retrieval fails with retry count n: if n+1  *)
(* is within MAX_RETRIES, one requeue message with count n+1 is sent and   *)
(* the failure re-raised; otherwise nothing is sent and the invocation     *)
(* ends with MaximumRetriesExceededException.  Violated for a message      *)
(* without consignment-reference: send_retry_message reads the key.        *)
(***************************************************************************)
RetrievalFailures == {"KeyError", "LocationValueError", "S3HTTPError", "MaxRetryError"}

C5_RequeueOrRefuse ==
    \A i \in Invocations :
        LET h == handler[i]
        IN  (h.pc = "failed" /\ h.at = "retrieve" /\ is_v1(h.message)) =>
                IF h.message.number_of_retries + 1 <= MAX_RETRIES
                THEN /\ h.sent = 1
                     /\ Len(sqs) >= 1
                     /\ sqs[Len(sqs)].number_of_retries = h.message.number_of_retries + 1
                     /\ h.err \in RetrievalFailures
                     /\ Has(h.message, "s3_folder_url") => h.err # "KeyError"
                ELSE /\ h.sent = 0
                     /\ h.err = "MaximumRetriesExceededException"

C7_Released ==
    \A i \in Invocations :
        EndedAfterOpen(i) =>
            /\ ~ handler[i].open
            /\ handler[i].filename \notin tmp[i]

(***************************************************************************)
(* C8.  If the store refuses the insert, the invocation ends with          *)
(* DocumentInsertionError and nothing downstream runs: no notification, no *)
(* property write, no copy to object storage, no publication sync.         *)
(***************************************************************************)
C8_NothingAfterFailedInsert ==
    /\ [](\A i \in Invocations :
            (handler[i].wrote # "none" /\ ~ handler[i].inserted) =>
                /\ handler[i].pc = "failed"
                /\ handler[i].err = "DocumentInsertionError")
    /\ [][\A i \in Invocations :
            (handler'[i].wrote # "none" /\ ~ handler'[i].inserted
                /\ handler'[i].id = handler[i].id) =>
                /\ notes' = notes /\ s3' = s3 /\ pub' = pub
                /\ \A u \in DOMAIN store :
                      u \in DOMAIN store' /\ store'[u].props = store[u].props
                /\ DOMAIN store' = DOMAIN store]_vars

C8_Witness ==
    \E i \in Invocations :
        /\ handler[i].err = "DocumentInsertionError"
        /\ handler[i].wrote = "insert" /\ ~ handler[i].inserted
        /\ handler[i].target_uri \notin DOMAIN store
        /\ Namespace(handler[i].target_uri) = {}

(***************************************************************************)
(* C9.  The writer chooses between update and insert: when the store holds *)
(* content at the target URI as the write is issued it is an update,       *)
(* otherwise an insert.  Violated: the handler only ever inserts.          *)
(***************************************************************************)
C9_UpdateOrInsert ==
    \A i \in Invocations :
        handler[i].wrote # "none" =>
            handler[i].wrote = IF handler[i].existed THEN "update" ELSE "insert"

(***************************************************************************)
(* C10.  After the insert, a parser log or a listed image that is not in   *)
(* the archive does not fail the invocation, and the other images and the  *)
(* archive file are still copied.  Violated: a missing image raises        *)
(* FileNotFoundException out of the loop.                                  *)
(***************************************************************************)
C10_OptionalAssets ==
    \A i \in Invocations :
        LET h == handler[i]
        IN  /\ (h.pc = "failed" /\ h.at \in {"parser.log", "images"}) =>
                    h.tar.images = AbsentStr
            /\ (h.pc = "done") =>
                    /\ \A k \in 1..Len(h.tar.images) :
                          h.tar.images[k] \in h.tar.imageMembers =>
                              Key(h.target_uri, <<h.tar.images[k]>>) \in s3
                    /\ Key(h.target_uri, Basename(h.filename)) \in s3

(***************************************************************************)
(* C11.  XML resolution always yields a document and never aborts: the     *)
(* parsed member when the XML member is there and well formed, otherwise   *)
(* an error document holding the escaped text of the parser log, otherwise *)
(* the fixed placeholder.  Violated: escape leaves a control character of  *)
(* the parser log in place and ET.XML refuses the error document.          *)
(***************************************************************************)
C11_Resolved(tar) ==
    IF tar.xml \notin {"", ABSENT} /\ tar.xmlMember = GoodXml THEN GoodXml
    ELSE IF tar.log = AbsentStr
         THEN <<"<error>", "parser.log not found", "</error>">>
         ELSE <<"<error>">>
                \o [k \in 1..Len(tar.log) |->
                       IF tar.log[k] = "<" THEN "&lt;"
                       ELSE IF tar.log[k] = "&" THEN "&amp;"
                       ELSE tar.log[k]]
                \o <<"</error>">>

C11_AlwaysADocument ==
    \A i \in Invocations :
        LET h == handler[i]
        IN  /\ ~ (h.pc = "failed" /\ h.at = "insert" /\ h.err = "ParseError")
            /\ (h.wrote # "none" /\ h.inserted /\ h.pc = "metadata") =>
                  store[h.target_uri].xml = C11_Resolved(h.tar)

(***************************************************************************)
(* C12.  A message is of the current generation exactly when it has the    *)
(* parameters key, and a message of either generation that yields no       *)
(* usable consignment reference (legacy: no non-empty consignment          *)
(* reference and no archive URL to derive one from; current: no non-empty  *)
(* parameters.reference) fails with InvalidMessageException before any     *)
(* retrieval and sends no retry message.  Violated: a legacy message with  *)
(* an empty s3-folder-url and no reference fails with IndexError.          *)
(***************************************************************************)
C12_Unusable(m) ==
    IF "parameters" \in DOMAIN m
    THEN \/ "reference" \notin DOMAIN m.parameters
         \/ m.parameters.reference = <<>>
    ELSE /\ \/ "consignment_reference" \notin DOMAIN m
            \/ m.consignment_reference = <<>>
         /\ \/ "s3_folder_url" \notin DOMAIN m
            \/ m.s3_folder_url = EmptyUrl

C12_MalformedMessage ==
    \A i \in Invocations :
        LET h == handler[i]
        IN  (h.pc # "idle" /\ C12_Unusable(h.message)) =>
                /\ h.pc = "failed" /\ h.at = "start"
                /\ h.err = "InvalidMessageException"
                /\ h.sent = 0
                /\ h.filename = <<>> /\ tmp[i] = {}

(***************************************************************************)
(* C13.  When the document at the target URI is published as the handler   *)
(* asks, every object of the private bucket under the target URI other     *)
(* than the parser log and the archive file is copied to the public bucket *)
(* under the same key with the public-read ACL, and no parser log nor      *)
(* archive file is copied.                                                 *)
(***************************************************************************)
C13_Withheld(key) == key[Len(key)] \in {"parser.log", TarGz}

C13_PublicationSync ==
    [][\A i \in Invocations :
          (/\ handler[i].pc = "publish" /\ handler'[i].pc = "done"
           /\ store[handler[i].target_uri].published)
          => /\ \A key \in Namespace(handler[i].target_uri) :
                   ~ C13_Withheld(key) =>
                       [key |-> key, acl |-> "public-read"] \in pub'
             /\ \A copy \in pub' \ pub :
                   /\ copy.key \in s3
                   /\ copy.acl = "public-read"
                   /\ ~ C13_Withheld(copy.key)]_vars

C13_Witness ==
    \E i \in Invocations :
        LET h == handler[i]
        IN  /\ h.pc = "done" /\ h.existed
            /\ store[h.target_uri].published
            /\ Key(h.target_uri, <<"parser.log">>) \in s3
            /\ Key(h.target_uri, Basename(h.filename)) \in s3
            /\ {copy.key : copy \in pub} =
                  {Key(h.target_uri, Replace(h.target_uri, Slash, "_") \o <<".docx">>),
                   Key(h.target_uri, <<"a.png">>), Key(h.target_uri, <<"b.png">>)}

(***************************************************************************)
(* C14.  The happy path: a legacy message whose archive is retrieved, with *)
(* a well-formed XML member, every listed file in the archive and a source *)
(* URI the store does not hold.  The handler issues one insert at that     *)
(* URI, then the new-document notification, then copies the docx, every    *)
(* listed image and the archive file under the target URI, and ends        *)
(* without error.  As claimed the notification is always sent; the         *)
(* handler sends it only where ROLLBAR_ENV is prod.                        *)
(***************************************************************************)
C14_Happy(i) ==
    LET h == handler[i]
    IN  /\ Selected(i)
        /\ is_v1(h.message)
        /\ ~ h.exists
        /\ h.tar.xml = "judgment.xml" /\ h.tar.xmlMember = GoodXml
        /\ h.tar.filename # ABSENT /\ h.tar.docxMember
        /\ h.tar.images # AbsentStr
        /\ \A k \in 1..Len(h.tar.images) : h.tar.images[k] \in h.tar.imageMembers

\* the run of a happy invocation; `notified` is whether the notification is sent
C14_Path(i, notified) ==
    LET h == handler[i]
        target == h.target_uri
    IN  /\ target = h.source_uri
        /\ h.pc = "failed" => (h.err = "DocumentInsertionError" /\ ~ h.inserted)
        /\ h.pc \in AfterInsert \cup {"done"} =>
              /\ h.wrote = "insert" /\ h.inserted
              /\ store[target].by = h.id /\ store[target].xml = GoodXml
              /\ target \in notes <=> notified
        /\ Namespace(target) # {} => h.inserted
        /\ h.pc = "done" =>
              /\ h.err = "none"
              /\ Key(target, Replace(target, Slash, "_") \o <<".docx">>) \in s3
              /\ \A k \in 1..Len(h.tar.images) : Key(target, <<h.tar.images[k]>>) \in s3
              /\ Key(target, Basename(h.filename)) \in s3

C14_AsClaimed == \A i \in Invocations : C14_Happy(i) => C14_Path(i, TRUE)

C14_HappyPath == \A i \in Invocations : C14_Happy(i) => C14_Path(i, prod)

C14_Witness ==
    \E i \in Invocations :
        /\ C14_Happy(i) /\ handler[i].pc = "done" /\ prod
        /\ handler[i].target_uri \in notes
        /\ handler[i].tar.images = <<"a.png", "b.png">>
        /\ Cardinality(Namespace(handler[i].target_uri)) = 5

(***************************************************************************)
(* C15.  Every retry message sent is the inbound legacy message with the   *)
(* URL cleared and the counter raised by one: the same consignment         *)
(* reference and consignment type, an empty s3-folder-url, and             *)
(* number-of-retries equal to the inbound count plus one.                  *)
(***************************************************************************)
C15_RetryMessage ==
    [][sqs' # sqs =>
          \E i \in Invocations :
              LET m == handler[i].message
                  retry == sqs'[Len(sqs')]
              IN  /\ handler'[i] # handler[i] /\ handler'[i].sent = 1
                  /\ sqs' = Append(sqs, retry)
                  /\ is_v1(m)
                  /\ DOMAIN retry = DOMAIN m \cup {"s3_folder_url"}
                  /\ "consignment_reference" \in DOMAIN m
                  /\ retry.consignment_reference = m.consignment_reference
                  /\ retry.consignment_type = m.consignment_type
                  /\ retry.s3_folder_url = EmptyUrl
                  /\ retry.number_of_retries = m.number_of_retries + 1]_vars

C15_Witness ==
    /\ Len(sqs) = 1
    /\ sqs[1].number_of_retries = MAX_RETRIES
    /\ sqs[1].consignment_reference = <<"TDR-1">>
    /\ \E i \in Invocations :
          /\ handler[i].sent = 1
          /\ handler[i].message.s3_folder_url = GoodUrl
          /\ handler[i].message.number_of_retries = MAX_RETRIES - 1

(***************************************************************************)
(* C16.  Retry escalation terminates.  A legacy message with retry count n *)
(* whose retrieval fails, and whose retry messages are each delivered back *)
(* to the handler, makes the handler send at most MAX_RETRIES - n retry    *)
(* messages, and the chain ends with an invocation that fails with         *)
(* MaximumRetriesExceededException and sends nothing.  Violated: a message *)
(* without consignment reference ends the chain with KeyError (C5), one    *)
(* with an empty reference ends it with IndexError (C12).                  *)
(***************************************************************************)
\* the retry count of the message the chain started from
C16_FirstCount == handler["h1"].message.number_of_retries - (deliveries - 1)

\* no invocation is running and no retry message waits to be delivered
C16_ChainOver ==
    /\ deliveries >= 1
    /\ ~ Running("h1")
    /\ Len(sqs) < deliveries

\* the first retrieval failed
C16_Retried ==
    \/ deliveries > 1
    \/ handler["h1"].pc = "failed" /\ handler["h1"].at = "retrieve"

C16_Terminates ==
    /\ deliveries >= 1 =>
          Len(sqs) <= IF C16_FirstCount <= MAX_RETRIES
                      THEN MAX_RETRIES - C16_FirstCount ELSE 0
    /\ (C16_ChainOver /\ C16_Retried) =>
          /\ handler["h1"].pc = "failed"
          /\ handler["h1"].err = "MaximumRetriesExceededException"
          /\ handler["h1"].sent = 0

(***************************************************************************)
(* C17.  A payload field the metadata may lack does not stop the handler:  *)
(* without an XML filename the parser-log error document is inserted and   *)
(* the handler goes on, without an image list the image copies are passed  *)
(* over and the handler goes on, and only a missing docx filename fails,   *)
(* with DocxFilenameNotFoundException.  Violated: the xml and images keys  *)
(* are read by subscript, and a payload without them raises KeyError.      *)
(***************************************************************************)
C17_OptionalFields ==
    \A i \in Invocations :
        LET h == handler[i]
            failed_at(places) == h.pc = "failed" /\ h.at \in places
        IN  (h.filename # <<>> /\ h.tar.metadata) =>
                /\ h.tar.xml \in {ABSENT, ""} =>
                      /\ ~ failed_at({"open"})
                      /\ failed_at({"insert"}) => h.err = "DocumentInsertionError"
                      /\ h.pc = "metadata" =>
                            store[h.target_uri].xml = C11_Resolved(h.tar)
                /\ h.tar.images \in {AbsentStr, <<>>} => ~ failed_at({"images"})
                /\ h.tar.filename = ABSENT =>
                      /\ h.pc \notin {"parser.log", "images", "archive", "publish", "done"}
                      /\ failed_at({"docx"}) =>
                            h.err = "DocxFilenameNotFoundException"

(***************************************************************************)
(* C18.  The target URI of an invocation is fixed once, by select_uri, and *)
(* every later operation is addressed by it: the insert, the notification, *)
(* the five property writes, every upload, the published check and the     *)
(* copies to the public bucket; none is addressed by the source URI when   *)
(* the two differ.                                                         *)
(***************************************************************************)
C18_TargetOnly ==
    [][\A i \in Invocations :
          (handler'[i] # handler[i] /\ handler[i].pc \in AfterOpen) =>
              LET target == handler[i].target_uri
              IN  /\ handler'[i].target_uri = target
                  /\ handler'[i].source_uri = handler[i].source_uri
                  /\ \A u \in DOMAIN store' :
                        (u \notin DOMAIN store \/ store'[u] # store[u]) => u = target
                  /\ DOMAIN store \subseteq DOMAIN store'
                  /\ notes' \ notes \subseteq {target}
                  /\ \A key \in s3' \ s3 : IsPrefix(target \o <<Slash>>, key)
                  /\ \A copy \in pub' \ pub : IsPrefix(target \o <<Slash>>, copy.key)
                  /\ handler[i].pc = "publish" =>
                        (pub' # pub <=>
                            /\ store[target].published
                            /\ \E key \in Namespace(target) :
                                  /\ ~ C13_Withheld(key)
                                  /\ [key |-> key, acl |-> "public-read"] \notin pub)]_vars

C18_Witness ==
    \E i \in Invocations :
        LET h == handler[i]
        IN  /\ h.pc = "done"
            /\ IsCollision(h.target_uri) /\ h.target_uri # h.source_uri
            /\ h.source_uri \in DOMAIN store
            /\ store[h.source_uri].by # h.id
            /\ \A p \in store[h.source_uri].props : p[2] # h.id
            /\ ~ store[h.source_uri].published
            /\ store[h.target_uri].by = h.id
            /\ store[h.target_uri].props = {<<n, h.id>> : n \in PropertyNames}
            /\ store[h.target_uri].published
            /\ Cardinality(Namespace(h.target_uri)) = 5
            /\ Namespace(h.source_uri) = {}
            /\ Cardinality(pub) = 3
            /\ \A copy \in pub : IsPrefix(h.target_uri \o <<Slash>>, copy.key)

(***************************************************************************)
(* C19.  The docx filename is read only after the write to the store: an   *)
(* invocation that ends with DocxFilenameNotFoundException, or because the *)
(* docx is not in the archive, has inserted the document at the target     *)
(* URI, has gone through the notification and has set the metadata         *)
(* properties, and has copied no object.                                   *)
(***************************************************************************)
C19_DocxAfterWrite ==
    \A i \in Invocations :
        LET h == handler[i]
        IN  (\/ h.err = "DocxFilenameNotFoundException"
             \/ h.pc = "failed" /\ h.at = "docx") =>
                /\ h.pc = "failed" /\ h.at = "docx"
                /\ h.err = IF h.tar.filename = ABSENT
                           THEN "DocxFilenameNotFoundException"
                           ELSE "FileNotFoundException"
                /\ h.wrote = "insert" /\ h.inserted
                /\ h.target_uri \in DOMAIN store
                /\ store[h.target_uri].by = h.id
                /\ prod => h.target_uri \in notes
                /\ store[h.target_uri].props = {<<n, h.id>> : n \in PropertyNames}
                /\ Namespace(h.target_uri) = {}
                /\ \A copy \in pub : ~ IsPrefix(h.target_uri \o <<Slash>>, copy.key)

C19_Witness ==
    \E i \in Invocations :
        /\ handler[i].err = "DocxFilenameNotFoundException"
        /\ handler[i].tar.filename = ABSENT
        /\ prod /\ handler[i].target_uri \in notes
        /\ store[handler[i].target_uri].xml = GoodXml
        /\ Cardinality(store[handler[i].target_uri].props) = 5
        /\ s3 = {}

====
